---- MODULE Spec2Model ----
(***************************************************************************)
(* strongvelope: the chat protocol handler of the webclient                *)
(* (src/unnamed/part_001).  Cryptography is modelled symbolically: a       *)
(* ciphertext, a wrapped key blob and a signature are records that         *)
(* remember what they were made from, and the inverse operation returns    *)
(* the original exactly when it is given the matching key material.        *)
(***************************************************************************)
EXTENDS Integers, Sequences, FiniteSets, TLC

VARIABLES
    hA,      \* the ProtocolHandler of user "A" (the sending side)
    hB,      \* the ProtocolHandler of user "B" (the receiving side)
    now,     \* the day stamp Date.now() / _ONE_DAY currently yields
    wire,    \* what the encryptTo calls of "A" emitted, in emission order
    read,    \* how many entries of wire "B" has been handed in order
    hist,    \* history of "A": key ids issued, calls made, keyed messages sent
    last,    \* the last call made and what it returned
    dlQueue,         \* a queue of transfer tasks (MegaQueue or TransferQueue)
    GlobalProgress,  \* per transfer: whether it is paused, the chunks worked on
    started          \* the tasks a worker was started on and has not called back

vars == <<hA, hB, now, wire, read, hist, last, dlQueue, GlobalProgress, started>>

-----------------------------------------------------------------------------
(* Bounds of the model *)

\* encryptTo calls per behaviour
MaxMsgs == 3
\* messages "A" puts on the wire for "B" per behaviour
MaxWire == 2
\* largest rotateKeyEvery a handler is configured with
MaxRotateEvery == 2
\* tasks pushed on a queue per behaviour
MaxTasks == 3
\* largest limit a queue is constructed with
MaxLimit == 2
\* pause(gid) calls per behaviour
MaxPauses == 3
\* sender key generations per behaviour
MaxKeyUpdates == 3
\* records of a message handed to the parser
MaxRecords == 4

-----------------------------------------------------------------------------
(* Program constants *)

PROTOCOL_VERSION == 0
DEFAULT_CONCURRENCY == 4
\* a KEYS record "may contain two (concatenated) keys"
MaxKeysInMessage == 2
CounterMask == 65535
Word16 == 65536

TLV_SIGNATURE == 1
TLV_MESSAGE_TYPE == 2
TLV_NONCE == 3
TLV_RECIPIENT == 4
TLV_KEYS == 5
TLV_KEY_IDS == 6
TLV_PAYLOAD == 7

GROUP_KEYED == 0
GROUP_FOLLOWUP == 1

-----------------------------------------------------------------------------
(* The small universes inputs are drawn from *)

\* user handles; the public chat key (pubCu25519) of "X" is not in the cache
Handles == {"A", "B", "C", "X"}
pubCu25519 == {"A", "B", "C"}
pubEd25519 == {"A", "B", "C"}
\* day stamps the clock can show
Days == {16801, 16802}
\* asmCrypto.getRandomValues: the n-th 16-byte key and the n-th 12-byte nonce
\* it yields differ from every value it yielded before
FreshKey(n) == [k |-> n, junk |-> <<>>]
FreshNonce(n) == n
\* the key _symmetricEncryptMessage makes up when it is handed none
EphemeralKey == [k |-> -1, junk |-> <<>>]
Plaintexts == {"hello", "world"}

\* JavaScript's null key id, the property name "undefined", the value undefined
NULL == <<>>
UNDEFINED_ID == <<-1, -1>>
UNDEFINED == [kind |-> "undefined"]
UndefinedKey == [k |-> 0, junk |-> <<>>]

-----------------------------------------------------------------------------
(* MegaQueue and TransferQueue (src/unnamed/part_000).  A task is the      *)
(* chunk handed to push, [id, gid]: task[gid] is what slurp tests.  The    *)
(* queue q, GlobalProgress G and the set of tasks a worker is busy with    *)
(* are passed around together as a record w.  validateTask is the          *)
(* MegaQueue one, which accepts every task.                                *)

Gids == {"dl_1", "dl_2"}

Task(id, gid) == [id |-> id, gid |-> gid]

\* the tasks in a sequence of tasks
Range(tasks) == {tasks[i] : i \in 1..Len(tasks)}

\* function MegaQueue(worker, limit); timer is the pending setTimeout that
\* _later names
MegaQueue(limit) ==
    [_limit |-> limit, _queue |-> <<>>, _running |-> 0, _paused |-> FALSE,
     _qpaused |-> <<>>, _later |-> FALSE, timer |-> FALSE, mull |-> FALSE,
     _expanded |-> FALSE]

\* function TransferQueue(): the same fields, and the prototype has mull
TransferQueue(limit) == [MegaQueue(limit) EXCEPT !.mull = TRUE]

\* GlobalProgress[gid] of a transfer that is under way
NoProgress == [gid \in Gids |-> [paused |-> FALSE, working |-> <<>>]]

World(q, G, s) == [q |-> q, G |-> G, started |-> s]

isEmpty(q) == q._running = 0 /\ Len(q._queue) = 0

\* this._later = setTimeout(this.process.bind(this), ms || 300), after
\* clearing the timer before
_process(q) == [q EXCEPT !._later = TRUE, !.timer = TRUE]

push(q, arg) == _process([q EXCEPT !._queue = Append(@, arg)])

pushFirst(q, arg) == _process([q EXCEPT !._queue = <<arg>> \o @])

\* this._limit <= this._running && this._limit*1.5 >= this._running
canExpand(q) == q._limit <= q._running /\ 3 * q._limit >= 2 * q._running

\* MegaQueue.prototype.expand: the queue after it, and what it returns
expand(q) ==
    IF canExpand(q)
    THEN [q |-> _process([q EXCEPT !._expanded = TRUE]), ret |-> TRUE]
    ELSE [q |-> q, ret |-> FALSE]

MegaQueue_pause(q) == [q EXCEPT !._paused = TRUE]

\* (a resume that sets no timer)
MegaQueue_resume_noTimer(q) == [q EXCEPT !._paused = FALSE]
MegaQueue_resume(q) == _process([q EXCEPT !._paused = FALSE])

\* the tasks of gid in a sequence of tasks, and the others
RECURSIVE Select(_, _, _)
Select(queue, gid, wanted) ==
    IF queue = <<>> THEN <<>>
    ELSE (IF (Head(queue).gid = gid) = wanted THEN <<Head(queue)>> ELSE <<>>)
         \o Select(Tail(queue), gid, wanted)

\* slurp: res and the queue left
slurp(q, gid) ==
    [res |-> Select(q._queue, gid, TRUE),
     q |-> [q EXCEPT !._queue = Select(@, gid, FALSE)]]

\* this._qpaused[gid], undefined being the absence of the key
IsHeld(q, gid) == \E i \in 1..Len(q._qpaused) : q._qpaused[i].gid = gid
HeldOf(q, gid) ==
    LET i == CHOOSE i \in 1..Len(q._qpaused) : q._qpaused[i].gid = gid
    IN  q._qpaused[i].tasks

\* this._qpaused[gid] = tasks: a key that exists keeps its place
SetHeld(qpaused, gid, tasks) ==
    IF \E i \in 1..Len(qpaused) : qpaused[i].gid = gid
    THEN [i \in 1..Len(qpaused) |->
             IF qpaused[i].gid = gid THEN [gid |-> gid, tasks |-> tasks]
             ELSE qpaused[i]]
    ELSE Append(qpaused, [gid |-> gid, tasks |-> tasks])

\* delete this._qpaused[gid]
RECURSIVE DeleteHeld(_, _)
DeleteHeld(qpaused, gid) ==
    IF qpaused = <<>> THEN <<>>
    ELSE (IF Head(qpaused).gid = gid THEN <<>> ELSE <<Head(qpaused)>>)
         \o DeleteHeld(Tail(qpaused), gid)

\* TransferQueue.prototype.dispatch
dispatch(w, gid) ==
    IF IsHeld(w.q, gid) /\ ~w.G[gid].paused
    THEN [w EXCEPT !.q = _process([w.q EXCEPT
                                      !._queue = HeldOf(w.q, gid) \o @,
                                      !._qpaused = DeleteHeld(@, gid)])]
    ELSE w

\* TransferQueue.prototype.mull: Object.keys(this._qpaused).shift()
mull(w) ==
    IF isEmpty(w.q) /\ Len(w.q._qpaused) > 0
    THEN dispatch(w, w.q._qpaused[1].gid)
    ELSE w

\* run_in_context: the worker is started on the task; a worker that keeps
\* the list of the chunks it works on adds the task to it
run_in_context(w, task, registers) ==
    [q |-> [w.q EXCEPT !._running = @ + 1],
     G |-> IF registers THEN [w.G EXCEPT ![task.gid].working = Append(@, task)]
           ELSE w.G,
     started |-> w.started \cup {task}]

\* the test of the loop of process
CanRun_inclusive(q) == q._running <= q._limit /\ Len(q._queue) > 0
CanRun(q) == q._running < q._limit /\ Len(q._queue) > 0

\* the loop of process: getNextTask takes the head of the queue
RECURSIVE RunTasks(_, _)
RunTasks(w, registers) ==
    IF CanRun(w.q)
    THEN LET args == Head(w.q._queue)
             taken == [w EXCEPT !.q._queue = Tail(@)]
         IN  RunTasks(run_in_context(taken, args, registers), registers)
    ELSE w

\* process past its test of _paused: the timer is cleared, the loop runs,
\* an expanded queue starts one more task, and mull is called if args, the
\* last task taken, is not set
RunProcess(w, registers) ==
    LET cleared == [w EXCEPT !.q._later = FALSE, !.q.timer = FALSE]
        ran == RunTasks(cleared, registers)
        extra == ran.q._expanded /\ Len(ran.q._queue) > 0
        expanded ==
            IF extra
            THEN run_in_context([ran EXCEPT !.q._queue = Tail(@)], Head(ran.q._queue),
                                registers)
            ELSE ran
        args == IF ran.q._expanded THEN extra ELSE CanRun(cleared.q)
        done == [expanded EXCEPT !.q._expanded = FALSE]
    IN  IF ~args /\ done.q.mull THEN mull(done) ELSE done

\* (a process that does not test _paused)
process_ignoringPause(w, registers) == RunProcess(w, registers)
\* MegaQueue.prototype.process, called by the timer
process(w, registers) ==
    IF w.q._paused THEN [w EXCEPT !.q.timer = FALSE]
    ELSE RunProcess(w, registers)

\* the callback MQRicStub of a task the worker is done with; the worker
\* drops the task from its list
RECURSIVE Without(_, _)
Without(tasks, task) ==
    IF tasks = <<>> THEN <<>>
    ELSE (IF Head(tasks) = task THEN <<>> ELSE <<Head(tasks)>>)
         \o Without(Tail(tasks), task)

\* if (!task[0]) return; a callback that ran has cleared task[0]
AlreadyCalled_never(w, task) == FALSE
AlreadyCalled(w, task) == task \notin w.started

MQRicStub(w, task) ==
    IF AlreadyCalled(w, task) THEN w
    ELSE [q |-> _process([w.q EXCEPT !._running = @ - 1]),
          G |-> [w.G EXCEPT ![task.gid].working = Without(@, task)],
          started |-> w.started \ {task}]

\* the loop of TransferQueue.prototype.pause over p.working: each chunk is
\* popped, aborted and put back at the head of the queue
RECURSIVE AbortWorking(_, _)
AbortWorking(w, gid) ==
    LET working == w.G[gid].working
    IN  IF working = <<>> THEN w
        ELSE LET chunk == working[Len(working)]
                 popped == [w EXCEPT !.G[gid].working = SubSeq(working, 1, Len(working) - 1),
                                     !.started = @ \ {chunk}]
                 pushed == [popped EXCEPT !.q = pushFirst(@, chunk)]
             IN  AbortWorking([pushed EXCEPT !.q._running = @ - 1], gid)

\* TransferQueue.prototype.pause(gid)
TransferQueue_pause(w, gid) ==
    LET p == AbortWorking([w EXCEPT !.G[gid].paused = TRUE], gid)
        slurped == slurp(p.q, gid)
    IN  [p EXCEPT !.q = [slurped.q EXCEPT !._qpaused = SetHeld(@, gid, slurped.res)]]

\* TransferQueue.prototype.resume(gid)
TransferQueue_resume(w, gid) ==
    LET resumed == [w EXCEPT !.G[gid].paused = FALSE]
    IN  IF isEmpty(resumed.q) THEN dispatch(resumed, gid) ELSE resumed

-----------------------------------------------------------------------------
(* Key ids: a 4-byte string, modelled as the one-element sequence of the   *)
(* signed 32-bit number a32_to_str packs.                                  *)

\* (dateStamp << 16) | counter as JavaScript computes it on 32-bit integers
ShiftLeft16(n) ==
    LET low == n % Word16
    IN  IF low >= 32768 THEN (low - Word16) * Word16 ELSE low * Word16

_encodeKeyId(dateStamp, counter) == <<ShiftLeft16(dateStamp) + (counter % Word16)>>

\* (a split that shifts with >>, keeping the sign)
_splitKeyId_arithmeticShift(keyId) ==
    LET keyIdNumber == keyId[1]
    IN  <<keyIdNumber \div Word16, keyIdNumber % Word16>>
\* [keyIdNumber >>> 16, keyIdNumber & 0xffff]
_splitKeyId(keyId) ==
    LET keyIdNumber == keyId[1]
        high == keyIdNumber \div Word16
    IN  <<IF keyIdNumber < 0 THEN high + Word16 ELSE high, keyIdNumber % Word16>>

\* the 4-byte string of a one-element array of 32-bit numbers, most
\* significant byte first, and the array of such a string
a32_to_str(a) ==
    LET n == a[1]
    IN  <<(n \div 16777216) % 256, (n \div Word16) % 256, (n \div 256) % 256, n % 256>>
str_to_a32(b) ==
    <<(IF b[1] >= 128 THEN b[1] - 256 ELSE b[1]) * 16777216
      + b[2] * Word16 + b[3] * 256 + b[4]>>

-----------------------------------------------------------------------------
(* Symbolic cryptography *)

\* AES-CTR under (key, nonce)
_symmetricEncryptMessage(message, key, nonce) ==
    [ciphertext |-> [kind |-> "ct", text |-> message, key |-> key, nonce |-> nonce],
     key |-> key, nonce |-> nonce]

\* AES-CTR decryption and decodeURIComponent(escape(..)): with the wrong key
\* or nonce the bytes are garbage, which either is no valid UTF-8 (the
\* URIError branch, false) or decodes to some other text; garbage says which.
\* A key or ciphertext that is undefined makes string_to_bytes throw.
_symmetricDecryptMessage(cipher, key, nonce, garbage) ==
    IF key = UndefinedKey \/ cipher.kind # "ct" \/ nonce.kind # "nonce"
    THEN [threw |-> TRUE, clear |-> "TypeError"]
    ELSE IF cipher.key = key /\ cipher.nonce = nonce.n
         THEN [threw |-> FALSE, clear |-> cipher.text]
         ELSE [threw |-> FALSE, clear |-> garbage]

\* Ed25519 detached signature over the record stream
\* (a signature that covers the payload record only)
_signMessage_payloadOnly(message, signer) ==
    [kind |-> "sig", by |-> signer, over |-> <<message[Len(message)]>>]
_signMessage(message, signer) == [kind |-> "sig", by |-> signer, over |-> message]

\* nacl.sign.detached.verify: "ok", "bad", or "throw" when the signature is
\* not a 64-byte value or the sender's public key is not cached
_verifyMessage_unchecked(message, signature, sender) ==
    IF signature.kind # "sig" \/ sender \notin pubEd25519 THEN "throw" ELSE "ok"
_verifyMessage(message, signature, sender) ==
    IF signature.kind # "sig" \/ sender \notin pubEd25519 THEN "throw"
    ELSE IF signature.by = sender /\ signature.over = message THEN "ok"
    ELSE "bad"

\* sha256(curve25519(priv, pub)): the same for both parties of a pair
_computeSymmetricKey(own, userhandle) == {own, userhandle}

\* AES-CBC of the concatenated keys under the pair's key and the IV
\* sha256(destination + nonce)
_encryptKeysFor(own, keys, nonce, destination) ==
    [kind |-> "wrapped", keys |-> keys,
     kek |-> _computeSymmetricKey(own, destination),
     receiver |-> destination, nonce |-> nonce]

\* AES-CBC decryption without padding: under another key every block is
\* garbage, under the right key and another IV only the first block is
Garbled(key, blob, kek, receiver, nonce) ==
    [k |-> key.k, junk |-> <<blob.kek, blob.receiver, blob.nonce, kek, receiver, nonce>>]

\* throws when the other party's public chat key is not cached; the length
\* assertion cannot fail for a blob that wraps whole keys
_decryptKeysFor(own, encryptedKeys, nonce, otherParty, iAmSender) ==
    LET receiver == IF iAmSender THEN otherParty ELSE own
        kek == _computeSymmetricKey(own, otherParty)
        n == IF nonce.kind = "nonce" THEN nonce.n ELSE -1
        sameIv == encryptedKeys.receiver = receiver /\ encryptedKeys.nonce = n
    IN  IF otherParty \notin pubCu25519
        THEN [threw |-> TRUE, keys |-> <<>>]
        ELSE [threw |-> FALSE,
              keys |-> [i \in 1..Len(encryptedKeys.keys) |->
                          IF encryptedKeys.kek = kek /\ (sameIv \/ i > 1)
                          THEN encryptedKeys.keys[i]
                          ELSE Garbled(encryptedKeys.keys[i], encryptedKeys,
                                       kek, receiver, n)]]

-----------------------------------------------------------------------------
(* The wire format: a version byte and a sequence of TLV records [t, v] *)

Rec(t, v) == [t |-> t, v |-> v]
ByteVal(n) == [kind |-> "byte", n |-> n]
NonceVal(n) == [kind |-> "nonce", n |-> n]
HandleVal(h) == [kind |-> "handle", h |-> h]
IdsVal(ids) == [kind |-> "ids", ids |-> ids]

EmptyParsed(version) ==
    [ok |-> TRUE, protocolVersion |-> version,
     signature |-> UNDEFINED, signedContent |-> <<>>,
     type |-> UNDEFINED, nonce |-> UNDEFINED, payload |-> UNDEFINED,
     recipients |-> <<>>, keys |-> <<>>, keyIds |-> <<>>]

\* the switch on tlvType: what one record does to parsedContent
ParseRecord(parsedContent, tlvType, value, rest) ==
    CASE tlvType = TLV_SIGNATURE ->
            [parsedContent EXCEPT !.signature = value, !.signedContent = rest]
      [] tlvType = TLV_MESSAGE_TYPE -> [parsedContent EXCEPT !.type = value]
      [] tlvType = TLV_RECIPIENT ->
            [parsedContent EXCEPT !.recipients =
                Append(@, IF value.kind = "handle" THEN value.h ELSE "?")]
      [] tlvType = TLV_KEYS -> [parsedContent EXCEPT !.keys = Append(@, value)]
      [] tlvType = TLV_KEY_IDS ->
            [parsedContent EXCEPT !.keyIds =
                @ \o (IF value.kind = "ids"
                      THEN [i \in 1..Len(value.ids) |-> <<value.ids[i]>>]
                      ELSE <<>>)]
      [] tlvType = TLV_NONCE -> [parsedContent EXCEPT !.nonce = value]
      [] tlvType = TLV_PAYLOAD -> [parsedContent EXCEPT !.payload = value]
      [] OTHER -> parsedContent

\* "Received unexpected TLV type."
OutOfOrder_exempting(tlvType, lastTlvType) ==
    tlvType < lastTlvType /\ tlvType \notin {TLV_RECIPIENT, TLV_KEYS}
OutOfOrder(tlvType, lastTlvType) == tlvType < lastTlvType

\* "Number of keys does not match number of recipients."
CountMismatch_fewer(parsedContent) ==
    Len(parsedContent.recipients) > 0
    /\ Len(parsedContent.recipients) > Len(parsedContent.keys)
CountMismatch(parsedContent) ==
    Len(parsedContent.recipients) > 0
    /\ Len(parsedContent.recipients) # Len(parsedContent.keys)

\* the while loop over the records, with its ordering check
RECURSIVE ParseLoop(_, _, _)
ParseLoop(rest, parsedContent, lastTlvType) ==
    IF rest = <<>> THEN parsedContent
    ELSE LET part == Head(rest)
         IN  IF OutOfOrder(part.t, lastTlvType)
             THEN [parsedContent EXCEPT !.ok = FALSE]
             ELSE ParseLoop(Tail(rest),
                            ParseRecord(parsedContent, part.t, part.v, Tail(rest)),
                            part.t)

_parseMessageContent(binaryMessage) ==
    LET parsedContent == ParseLoop(binaryMessage.records,
                                   EmptyParsed(binaryMessage.version), -1)
    IN  IF ~parsedContent.ok THEN parsedContent
        ELSE IF CountMismatch(parsedContent)
             THEN [parsedContent EXCEPT !.ok = FALSE]
             ELSE parsedContent

\* whether a message has a record of a type, the first such record's value
Has(message, tlvType) == \E i \in 1..Len(message.records) : message.records[i].t = tlvType
First(message, tlvType) ==
    message.records[CHOOSE i \in 1..Len(message.records) :
                        /\ message.records[i].t = tlvType
                        /\ \A j \in 1..(i - 1) : message.records[j].t # tlvType].v
PrimaryKeyId(message) == <<First(message, TLV_KEY_IDS).ids[1]>>
TypesOf(message) == [i \in 1..Len(message.records) |-> message.records[i].t]

-----------------------------------------------------------------------------
(* The ProtocolHandler *)

\* a key store entry, participantKeys[handle]: key id -> key
EmptyKeys == [id \in {} |-> UndefinedKey]
\* (a lookup that falls back to some cached key)
Lookup_fallback(keys, id) ==
    IF id \in DOMAIN keys THEN keys[id]
    ELSE IF DOMAIN keys # {} THEN keys[CHOOSE i \in DOMAIN keys : TRUE]
    ELSE UndefinedKey
Lookup(keys, id) == IF id \in DOMAIN keys THEN keys[id] ELSE UndefinedKey
Store(keys, id, key) == [i \in DOMAIN keys \cup {id} |-> IF i = id THEN key ELSE keys[i]]
\* (a store that is one table for all participants)
KeysOf_shared(participantKeys, handle) ==
    LET ids == UNION {DOMAIN participantKeys[h] : h \in DOMAIN participantKeys}
    IN  [id \in ids |->
            participantKeys[CHOOSE h \in DOMAIN participantKeys :
                                id \in DOMAIN participantKeys[h]][id]]
KeysOf(participantKeys, handle) ==
    IF handle \in DOMAIN participantKeys THEN participantKeys[handle] ELSE EmptyKeys

\* the constructor
ProtocolHandler(ownHandle, rotateKeyEvery) ==
    [ownHandle |-> ownHandle,
     rotateKeyEvery |-> rotateKeyEvery,
     keyEncryptionCount |-> 0,
     keyId |-> NULL,
     previousKeyId |-> NULL,
     sentKeyId |-> NULL,
     participantKeys |-> [h \in {ownHandle} |-> EmptyKeys]]

\* _updateSenderKey: the next key id, from the current one and the clock
\* (the counter carried over a day boundary)
NextKeyId_noReset(keyId, newDateStamp) ==
    IF keyId # NULL
    THEN _encodeKeyId(newDateStamp, (_splitKeyId(keyId)[2] + 1) % (CounterMask + 1))
    ELSE _encodeKeyId(newDateStamp, 0)
NextKeyId(keyId, newDateStamp) ==
    IF keyId # NULL
    THEN LET keyIdComponents == _splitKeyId(keyId)
             dateStamp == keyIdComponents[1]
             counter == keyIdComponents[2]
         IN  IF newDateStamp # dateStamp
             THEN _encodeKeyId(newDateStamp, 0)
             ELSE _encodeKeyId(dateStamp, (counter + 1) % (CounterMask + 1))
    ELSE _encodeKeyId(newDateStamp, 0)

_updateSenderKey(h, newDateStamp, secretKey) ==
    LET keyId == NextKeyId(h.keyId, newDateStamp)
    IN  [h EXCEPT !.previousKeyId = IF h.keyId # NULL THEN h.keyId ELSE @,
                  !.keyId = keyId,
                  !.participantKeys[h.ownHandle] = Store(@, keyId, secretKey),
                  !.keyEncryptionCount = 0]

\* tlvstore.toTlvRecord length-prefixes its value: handed the null key id of
\* a handler that never generated a key, reading value.length throws
toTlvRecordThrows(value) == value = NULL

NoMessage == [version |-> -1, records |-> <<>>]

\* "Check and rotate key if due."
RotationDue_after(h) == h.keyEncryptionCount > h.rotateKeyEvery
RotationDue(h) == h.keyEncryptionCount >= h.rotateKeyEvery

\* "Use a (leaner) followup message if the sender key's been sent already."
UseFollowup(h) == h.sentKeyId = h.keyId

\* the keys a keyed message wraps and the key ids it names
KeysIncluded_swapped(h) ==
    LET own == h.participantKeys[h.ownHandle]
    IN  IF h.previousKeyId # NULL
        THEN <<Lookup(own, h.previousKeyId), Lookup(own, h.keyId)>>
        ELSE <<Lookup(own, h.keyId)>>
KeysIncluded(h) ==
    LET own == h.participantKeys[h.ownHandle]
    IN  IF h.previousKeyId # NULL
        THEN <<Lookup(own, h.keyId), Lookup(own, h.previousKeyId)>>
        ELSE <<Lookup(own, h.keyId)>>
KeyIdsIncluded(h) == IF h.previousKeyId # NULL THEN h.keyId \o h.previousKeyId ELSE h.keyId

\* this._sentKeyId = this.keyId, in the keyed branch
MarkSent_forgotten(h) == h
\* (an update that rebuilds the key store from the own entry alone)
MarkSent_ownOnly(h) ==
    [h EXCEPT !.sentKeyId = h.keyId,
              !.participantKeys = [p \in {h.ownHandle} |-> @[p]]]
MarkSent(h) == [h EXCEPT !.sentKeyId = h.keyId]

encryptTo(h, message, destination, newDateStamp, secretKey, nonce) ==
    LET rotate == RotationDue(h)
        h1 == IF rotate THEN _updateSenderKey(h, newDateStamp, secretKey) ELSE h
        own == h1.participantKeys[h1.ownHandle]
        senderKey == Lookup(own, h1.keyId)
        encryptedMessage ==
            _symmetricEncryptMessage(
                message, IF senderKey # UndefinedKey THEN senderKey ELSE EphemeralKey, nonce)
        followup == UseFollowup(h1)
        keysIncluded == KeysIncluded(h1)
        keyIds == KeyIdsIncluded(h1)
        h2 == IF followup THEN h1 ELSE MarkSent(h1)
        content ==
            <<Rec(TLV_MESSAGE_TYPE, ByteVal(IF followup THEN GROUP_FOLLOWUP ELSE GROUP_KEYED)),
              Rec(TLV_NONCE, NonceVal(encryptedMessage.nonce))>>
            \o (IF followup THEN <<>>
                ELSE <<Rec(TLV_RECIPIENT, HandleVal(destination)),
                       Rec(TLV_KEYS, _encryptKeysFor(h1.ownHandle, keysIncluded,
                                                     encryptedMessage.nonce, destination))>>)
            \o <<Rec(TLV_KEY_IDS, IdsVal(IF followup THEN h1.keyId ELSE keyIds)),
                 Rec(TLV_PAYLOAD, encryptedMessage.ciphertext)>>
        signature == _signMessage(content, h1.ownHandle)
    IN  IF ~followup /\ destination \notin pubCu25519
        THEN \* _computeSymmetricKey throws, after the rotation
             [h |-> h1, threw |-> TRUE, rotated |-> rotate, message |-> NoMessage]
        ELSE IF toTlvRecordThrows(IF followup THEN h1.keyId ELSE keyIds)
        THEN [h |-> h1, threw |-> TRUE, rotated |-> rotate, message |-> NoMessage]
        ELSE [h |-> [h2 EXCEPT !.keyEncryptionCount = @ + 1],
              threw |-> FALSE, rotated |-> rotate,
              message |-> [version |-> PROTOCOL_VERSION,
                           records |-> <<Rec(TLV_SIGNATURE, signature)>> \o content]]

\* the loop of decryptFrom over the unwrapped keys: the conflict check and
\* the cache write of key i, then of the keys after it
\* "Bail out on inconsistent information."
Mismatch_ignored(previousSenderKey, key) == FALSE
Mismatch(previousSenderKey, key) ==
    previousSenderKey # UndefinedKey /\ previousSenderKey # key

RECURSIVE CacheKeys(_, _, _, _)
CacheKeys(cache, decryptedKeys, keyIds, i) ==
    IF i > Len(decryptedKeys) THEN [conflict |-> FALSE, cache |-> cache]
    ELSE LET id == IF i <= Len(keyIds) THEN keyIds[i] ELSE UNDEFINED_ID
             previousSenderKey == Lookup(cache, id)
         IN  IF Mismatch(previousSenderKey, decryptedKeys[i])
             THEN [conflict |-> TRUE, cache |-> cache]
             ELSE CacheKeys(Store(cache, id, decryptedKeys[i]), decryptedKeys, keyIds, i + 1)

\* what decryptFrom hands back: false (with the return statement that gave
\* it), an exception, or the message object
Failure(cause) ==
    [returned |-> "false", cause |-> cause, sender |-> "", type |-> UNDEFINED, payload |-> ""]
Exception ==
    [returned |-> "exception", cause |-> "Exception", sender |-> "", type |-> UNDEFINED,
     payload |-> ""]

decryptFrom(h, message, sender, garbage) ==
    LET parsedMessage == _parseMessageContent(message)
        verified == _verifyMessage(parsedMessage.signedContent, parsedMessage.signature,
                                   sender)
        keyId == IF Len(parsedMessage.keyIds) > 0 THEN parsedMessage.keyIds[1]
                 ELSE UNDEFINED_ID
        isOwnMessage == sender = h.ownHandle
        otherHandle == IF ~isOwnMessage THEN sender
                       ELSE IF Len(parsedMessage.recipients) > 0
                            THEN parsedMessage.recipients[1] ELSE "undefined"
        unwrap == _decryptKeysFor(h.ownHandle, parsedMessage.keys[1], parsedMessage.nonce,
                                  otherHandle, isOwnMessage)
        decryptedKeys == unwrap.keys
        cached == CacheKeys(KeysOf(h.participantKeys, sender), decryptedKeys,
                            parsedMessage.keyIds, 1)
        keyed == Len(parsedMessage.keys) > 0
        senderKey == IF keyed
                     THEN IF Len(decryptedKeys) > 0 THEN decryptedKeys[1] ELSE UndefinedKey
                     ELSE Lookup(KeysOf(h.participantKeys, sender), keyId)
        withKeys(cache) ==
            [h EXCEPT !.participantKeys =
                [p \in DOMAIN h.participantKeys \cup {sender} |->
                    IF p = sender THEN cache ELSE h.participantKeys[p]]]
        h1 == IF ~keyed THEN h
              ELSE IF cached.conflict THEN withKeys(cached.cache)
              ELSE withKeys(Store(cached.cache, keyId, senderKey))
        cleartext == _symmetricDecryptMessage(parsedMessage.payload, senderKey,
                                              parsedMessage.nonce, garbage)
    IN  IF ~parsedMessage.ok
        THEN [h |-> h, unwrapped |-> FALSE, ret |-> Failure("MalformedMessage")]
        ELSE IF parsedMessage.protocolVersion # PROTOCOL_VERSION
        THEN [h |-> h, unwrapped |-> FALSE, ret |-> Failure("UnsupportedVersion")]
        ELSE IF verified = "throw"
        THEN [h |-> h, unwrapped |-> FALSE, ret |-> Exception]
        ELSE IF verified = "bad"
        THEN [h |-> h, unwrapped |-> FALSE, ret |-> Failure("InvalidSignature")]
        ELSE IF keyed /\ unwrap.threw
        THEN [h |-> h, unwrapped |-> FALSE, ret |-> Exception]
        ELSE IF keyed /\ cached.conflict
        THEN [h |-> h1, unwrapped |-> TRUE, ret |-> Failure("KeyConflict")]
        ELSE IF ~keyed /\ senderKey = UndefinedKey
        THEN [h |-> h, unwrapped |-> FALSE, ret |-> Failure("UnknownSenderKey")]
        ELSE IF cleartext.threw
        THEN [h |-> h1, unwrapped |-> keyed, ret |-> Exception]
        ELSE IF cleartext.clear = "URIError"
        THEN [h |-> h1, unwrapped |-> keyed, ret |-> Failure("DecryptionFailed")]
        ELSE [h |-> h1, unwrapped |-> keyed,
              ret |-> [returned |-> "object", cause |-> "None", sender |-> sender,
                       type |-> parsedMessage.type, payload |-> cleartext.clear]]

-----------------------------------------------------------------------------
(* The state machine: "A" sends, the clock moves, "B" receives *)

\* no transfer is under way
NoTransfers ==
    /\ dlQueue = TransferQueue(DEFAULT_CONCURRENCY)
    /\ GlobalProgress = NoProgress
    /\ started = {}

NoHistory ==
    [issued |-> {}, updates |-> 0, calls |-> 0, sinceRotation |-> 0,
     keyedTo |-> {}, keyedSinceRotation |-> {}]

Init ==
    /\ \E n \in 1..MaxRotateEvery : hA = ProtocolHandler("A", n)
    /\ hB = ProtocolHandler("B", MaxRotateEvery)
    /\ now \in Days
    /\ wire = <<>>
    /\ read = 0
    /\ hist = NoHistory
    /\ last = [op |-> "new"]
    /\ NoTransfers

\* Date.now() crosses a day boundary, or the wall clock is set to another day
Tick ==
    /\ \E day \in Days \ {now} : now' = day
    /\ UNCHANGED <<hA, hB, wire, read, hist, last, dlQueue, GlobalProgress, started>>

\* the chat code calls _updateSenderKey on "A"
UpdateSenderKey ==
    /\ hist.updates < MaxKeyUpdates
    /\ hA' = _updateSenderKey(hA, now, FreshKey(hist.updates + 1))
    /\ last' = [op |-> "_updateSenderKey", before |-> hA, day |-> now]
    /\ hist' = [hist EXCEPT !.issued = @ \cup {hA'.keyId},
                            !.updates = @ + 1,
                            !.sinceRotation = 0,
                            !.keyedSinceRotation = {}]
    /\ UNCHANGED <<hB, now, wire, read, dlQueue, GlobalProgress, started>>

\* the history after an encryptTo call
Recorded(call, destination) ==
    LET keyed == ~call.threw /\ Has(call.message, TLV_KEYS)
    IN  [issued |-> IF call.rotated THEN hist.issued \cup {call.h.keyId} ELSE hist.issued,
         updates |-> hist.updates + (IF call.rotated THEN 1 ELSE 0),
         calls |-> hist.calls + 1,
         sinceRotation |-> (IF call.rotated THEN 0 ELSE hist.sinceRotation)
                           + (IF call.threw THEN 0 ELSE 1),
         keyedTo |-> IF keyed THEN hist.keyedTo \cup {<<destination, call.h.keyId>>}
                     ELSE hist.keyedTo,
         keyedSinceRotation |->
            (IF call.rotated THEN {} ELSE hist.keyedSinceRotation)
            \cup (IF keyed THEN {destination} ELSE {})]

\* "A" calls encryptTo(message, destination)
EncryptToFrom(messages, destinations, onWire) ==
    /\ hist.calls < MaxMsgs
    /\ onWire => Len(wire) < MaxWire
    /\ \E message \in messages, destination \in destinations :
          LET call == encryptTo(hA, message, destination, now, FreshKey(hist.updates + 1),
                                FreshNonce(hist.calls + 1))
          IN  /\ call.rotated => hist.updates < MaxKeyUpdates
              /\ hA' = call.h
              /\ wire' = IF call.threw \/ ~onWire THEN wire
                         ELSE Append(wire, [message |-> call.message,
                                            plaintext |-> message,
                                            stored |-> call.h.keyId # NULL])
              /\ hist' = Recorded(call, destination)
              /\ last' = [op |-> "encryptTo", before |-> hA, destination |-> destination,
                          plaintext |-> message, threw |-> call.threw,
                          rotated |-> call.rotated, message |-> call.message,
                          since |-> hist.sinceRotation,
                          keyedBefore |-> hist.keyedSinceRotation]
    /\ UNCHANGED <<hB, now, read, dlQueue, GlobalProgress, started>>

\* to any destination, "X" being one whose chat key is not cached
EncryptTo == EncryptToFrom({"hello"}, {"B", "C", "X"}, FALSE)

NextSend == Tick \/ UpdateSenderKey \/ EncryptTo

SpecSend == Init /\ [][NextSend]_vars

-----------------------------------------------------------------------------
(* The receiving side *)

\* how the bytes of a payload decrypted under the wrong key or nonce decode:
\* not as UTF-8 at all, or as some other text
Garbage == {"URIError", "garbage"}

\* "A" sends to "B" only, and what it emits goes on the wire
EncryptToB == EncryptToFrom(Plaintexts, {"B"}, TRUE)

\* "B" is handed the next message of the wire, in emission order
Deliver ==
    /\ read < Len(wire)
    /\ \E garbage \in Garbage :
          LET call == decryptFrom(hB, wire[read + 1].message, "A", garbage)
          IN  /\ hB' = call.h
              /\ last' = [op |-> "decryptFrom", source |-> "wire", before |-> hB,
                          ret |-> call.ret, unwrapped |-> call.unwrapped,
                          message |-> wire[read + 1].message,
                          plaintext |-> wire[read + 1].plaintext]
    /\ read' = read + 1
    /\ UNCHANGED <<hA, now, wire, hist, dlQueue, GlobalProgress, started>>

\* another value of the same size for the value of a record
Altered(v) ==
    CASE v.kind = "sig" -> {[v EXCEPT !.by = "C"], [v EXCEPT !.over = <<>>]}
      [] v.kind = "byte" -> {ByteVal(n) : n \in (0..2) \ {v.n}}
      [] v.kind = "nonce" -> {NonceVal(0)}
      [] v.kind = "handle" -> {HandleVal(h) : h \in {"A", "B", "C"} \ {v.h}}
      [] v.kind = "wrapped" -> {[v EXCEPT !.keys[1] = FreshKey(MaxKeyUpdates + 2)],
                                [v EXCEPT !.receiver = "C"]}
      [] v.kind = "ids" -> {IdsVal([v.ids EXCEPT ![1] = @ + 1]),
                            IdsVal([v.ids EXCEPT ![Len(v.ids)] = @ + 1])}
      [] v.kind = "ct" -> {[v EXCEPT !.text = "tampered"], [v EXCEPT !.key = EphemeralKey]}

\* the messages that differ from message in one part, with the part's name
PartName(tlvType) ==
    CASE tlvType = TLV_SIGNATURE -> "signature"
      [] tlvType = TLV_MESSAGE_TYPE -> "message type"
      [] tlvType = TLV_NONCE -> "nonce"
      [] tlvType = TLV_RECIPIENT -> "recipient"
      [] tlvType = TLV_KEYS -> "keys"
      [] tlvType = TLV_KEY_IDS -> "key ids"
      [] tlvType = TLV_PAYLOAD -> "payload"

Tampered(message) ==
    {[part |-> "version", message |-> [message EXCEPT !.version = v]] :
        v \in (0..1) \ {message.version}}
    \cup UNION {{[part |-> "type byte", message |-> [message EXCEPT !.records[i].t = t]] :
                    t \in {1, message.records[i].t - 1, message.records[i].t + 1, 8}
                          \ {0, message.records[i].t}} : i \in 1..Len(message.records)}
    \cup UNION {{[part |-> PartName(message.records[i].t),
                  message |-> [message EXCEPT !.records[i].v = v]] :
                    v \in Altered(message.records[i].v)} : i \in 1..Len(message.records)}

\* "B" is handed the next message of the wire with one part changed on the way
DecryptTampered ==
    /\ read < Len(wire)
    /\ \E t \in Tampered(wire[read + 1].message) :
          LET call == decryptFrom(hB, t.message, "A", "garbage")
          IN  /\ hB' = call.h
              /\ last' = [op |-> "decryptFrom", source |-> "tampered", before |-> hB,
                          ret |-> call.ret, unwrapped |-> call.unwrapped,
                          part |-> t.part]
    /\ UNCHANGED <<hA, now, wire, read, hist, dlQueue, GlobalProgress, started>>

Next == Tick \/ UpdateSenderKey \/ EncryptToB \/ Deliver

Spec == Init /\ [][Next]_vars

\* the same, with one text only
EncryptHelloToB == EncryptToFrom({"hello"}, {"B"}, TRUE)

NextTamper == UpdateSenderKey \/ EncryptHelloToB \/ Deliver \/ DecryptTampered

SpecTamper == Init /\ [][NextTamper]_vars

-----------------------------------------------------------------------------
(* "B" receives whatever its peers can sign *)

\* the sequences over S of at most n elements
SeqsUpTo(S, n) == UNION {[1..k -> S] : k \in 0..n}

\* the peers whose messages "B" is handed, and what they put in them
Peers == {"A"}
PeerKeys == {FreshKey(1), FreshKey(2)}
PeerKeyIds == {_encodeKeyId(16801, 0)[1], _encodeKeyId(16801, 1)[1]}

\* a message signed by sender for "B": keyed (a RECIPIENT and a KEYS record
\* wrapping keys, which may be none) or not, naming the key ids in ids, the
\* payload encrypted under payloadKey
SignedMessage(sender, keyed, keys, ids, payloadKey) ==
    LET content ==
            <<Rec(TLV_MESSAGE_TYPE, ByteVal(IF keyed THEN GROUP_KEYED ELSE GROUP_FOLLOWUP)),
              Rec(TLV_NONCE, NonceVal(FreshNonce(1)))>>
            \o (IF keyed
                THEN <<Rec(TLV_RECIPIENT, HandleVal("B")),
                       Rec(TLV_KEYS, _encryptKeysFor(sender, keys, FreshNonce(1), "B"))>>
                ELSE <<>>)
            \o (IF ids # <<>> THEN <<Rec(TLV_KEY_IDS, IdsVal(ids))>> ELSE <<>>)
            \o <<Rec(TLV_PAYLOAD,
                     _symmetricEncryptMessage("hello", payloadKey, FreshNonce(1)).ciphertext)>>
    IN  [version |-> PROTOCOL_VERSION,
         records |-> <<Rec(TLV_SIGNATURE, _signMessage(content, sender))>> \o content]

\* "B" is handed a validly signed message of a peer
DecryptSigned ==
    /\ \E sender \in Peers, keyed \in BOOLEAN,
          keys \in SeqsUpTo(PeerKeys, MaxKeysInMessage),
          ids \in SeqsUpTo(PeerKeyIds, MaxKeysInMessage) :
          /\ ~keyed => keys = <<>>
          /\ LET payloadKey == IF keys # <<>> THEN keys[1] ELSE FreshKey(1)
                 call == decryptFrom(hB, SignedMessage(sender, keyed, keys, ids, payloadKey),
                                     sender, "garbage")
             IN  /\ hB' = call.h
                 /\ last' = [op |-> "decryptFrom", source |-> "signed", before |-> hB,
                             ret |-> call.ret, unwrapped |-> call.unwrapped,
                             sender |-> sender, keyed |-> keyed, keys |-> keys,
                             ids |-> [i \in 1..Len(ids) |-> <<ids[i]>>]]
    /\ UNCHANGED <<hA, now, wire, read, hist, dlQueue, GlobalProgress, started>>

NextRecv == DecryptSigned

\* the sender "A" plays no part here
InitRecv ==
    /\ Init
    /\ hA = ProtocolHandler("A", MaxRotateEvery)
    /\ now = 16801

SpecRecv == InitRecv /\ [][NextRecv]_vars

-----------------------------------------------------------------------------
(* Rotations of a handler that has rotated before *)

\* the counters of the key id a handler holds: at the start of a day and
\* after 65,534 and 65,535 rotations within it
Counters == {0, 1, CounterMask - 1, CounterMask}

\* "A" holds no key yet, or the key of some earlier rotation
InitRotate ==
    /\ \E n \in 1..MaxRotateEvery :
          \/ hA = ProtocolHandler("A", n)
          \/ \E day \in Days, counter \in Counters :
                LET keyId == _encodeKeyId(day, counter)
                IN  hA = [ProtocolHandler("A", n) EXCEPT
                             !.keyId = keyId,
                             !.participantKeys["A"] =
                                 Store(EmptyKeys, keyId, FreshKey(MaxKeyUpdates + 1))]
    /\ hB = ProtocolHandler("B", MaxRotateEvery)
    /\ now \in Days
    /\ wire = <<>>
    /\ read = 0
    /\ hist = NoHistory
    /\ last = [op |-> "new"]
    /\ NoTransfers

NextRotate == Tick \/ UpdateSenderKey

SpecRotate == InitRotate /\ [][NextRotate]_vars

-----------------------------------------------------------------------------
(* "A" reads its own messages again *)

\* "A" calls decryptFrom, with its own handle as the sender, on a keyed
\* message it sent earlier
ReadOwn ==
    /\ \E i \in 1..Len(wire) :
          /\ Has(wire[i].message, TLV_KEYS)
          /\ LET call == decryptFrom(hA, wire[i].message, "A", "garbage")
             IN  /\ hA' = call.h
                 /\ last' = [op |-> "decryptFrom", source |-> "own", before |-> hA,
                             ret |-> call.ret, unwrapped |-> call.unwrapped,
                             message |-> wire[i].message,
                             plaintext |-> wire[i].plaintext]
    /\ UNCHANGED <<hB, now, wire, read, hist, dlQueue, GlobalProgress, started>>

NextOwn == Tick \/ UpdateSenderKey \/ EncryptHelloToB \/ ReadOwn

SpecOwn == Init /\ [][NextOwn]_vars

-----------------------------------------------------------------------------
(* "B" receives the messages of two peers, in any order *)

TwoPeers == {"A", "C"}

\* the message of a call recorded in last: keyed messages carry one key
\* under one key id, follow-ups name a key id; the payload of a follow-up is
\* encrypted under the first of the peers' keys
PeerMessage(call) ==
    SignedMessage(call.sender, call.keyed, IF call.keyed THEN <<call.key>> ELSE <<>>,
                  call.id, IF call.keyed THEN call.key ELSE FreshKey(1))

\* "B" is handed a validly signed message of one of the peers
DecryptFromPeer ==
    /\ \E sender \in TwoPeers, keyed \in BOOLEAN, key \in PeerKeys, id \in PeerKeyIds :
          /\ ~keyed => key = FreshKey(1)
          /\ LET this == [sender |-> sender, keyed |-> keyed, key |-> key, id |-> <<id>>]
                 call == decryptFrom(hB, PeerMessage(this), sender, "garbage")
             IN  /\ hB' = call.h
                 /\ last' = [op |-> "decryptFrom", source |-> "peer", before |-> hB,
                             ret |-> call.ret, unwrapped |-> call.unwrapped,
                             sender |-> sender, keyed |-> keyed, key |-> key, id |-> <<id>>,
                             prev |-> IF last.op = "decryptFrom"
                                      THEN [last EXCEPT !.prev = <<>>]
                                      ELSE [op |-> "new"]]
    /\ UNCHANGED <<hA, now, wire, read, hist, dlQueue, GlobalProgress, started>>

NextPeers == DecryptFromPeer

SpecPeers == InitRecv /\ [][NextPeers]_vars

-----------------------------------------------------------------------------
(* "B" receives keyed messages addressed to several recipients *)

\* the recipient lists of the messages "B" is handed
RecipientLists == {<<"B">>, <<"B", "C">>, <<"C", "B">>}

\* the RECIPIENT and KEYS records of a message of sender that carries keys
\* for the recipients: as consecutive pairs, or the RECIPIENT records first
RecipientRecords(sender, recipients, keys, paired) ==
    LET recipient(i) == Rec(TLV_RECIPIENT, HandleVal(recipients[i]))
        wrapped(i) == Rec(TLV_KEYS, _encryptKeysFor(sender, keys, FreshNonce(1),
                                                    recipients[i]))
        n == Len(recipients)
    IN  IF paired
        THEN [j \in 1..(2 * n) |->
                IF j % 2 = 1 THEN recipient((j + 1) \div 2) ELSE wrapped(j \div 2)]
        ELSE [j \in 1..(2 * n) |-> IF j <= n THEN recipient(j) ELSE wrapped(j - n)]

\* a keyed message signed by sender, carrying key under key id id for each
\* of the recipients
MultiMessage(sender, recipients, key, id, paired) ==
    LET content ==
            <<Rec(TLV_MESSAGE_TYPE, ByteVal(GROUP_KEYED)),
              Rec(TLV_NONCE, NonceVal(FreshNonce(1)))>>
            \o RecipientRecords(sender, recipients, <<key>>, paired)
            \o <<Rec(TLV_KEY_IDS, IdsVal(<<id>>)),
                 Rec(TLV_PAYLOAD,
                     _symmetricEncryptMessage("hello", key, FreshNonce(1)).ciphertext)>>
    IN  [version |-> PROTOCOL_VERSION,
         records |-> <<Rec(TLV_SIGNATURE, _signMessage(content, sender))>> \o content]

\* "B" is handed such a message of "A"
DecryptMulti ==
    /\ \E recipients \in RecipientLists, key \in PeerKeys, id \in PeerKeyIds,
          paired \in BOOLEAN, garbage \in Garbage :
          LET call == decryptFrom(hB, MultiMessage("A", recipients, key, id, paired), "A",
                                  garbage)
          IN  /\ hB' = call.h
              /\ last' = [op |-> "decryptFrom", source |-> "multi", before |-> hB,
                          ret |-> call.ret, unwrapped |-> call.unwrapped,
                          sender |-> "A", recipients |-> recipients, key |-> key,
                          id |-> <<id>>, paired |-> paired]
    /\ UNCHANGED <<hA, now, wire, read, hist, dlQueue, GlobalProgress, started>>

NextMulti == DecryptMulti

SpecMulti == InitRecv /\ [][NextMulti]_vars

-----------------------------------------------------------------------------
(* "A" sends, re-reads its own messages and receives those of "C" *)

\* "A" is handed a keyed message of "C" addressed to it
ReadPeer ==
    /\ \E key \in PeerKeys, id \in PeerKeyIds :
          LET message == MultiMessage("C", <<"A">>, key, id, FALSE)
              call == decryptFrom(hA, message, "C", "garbage")
          IN  /\ hA' = call.h
              /\ last' = [op |-> "decryptFrom", source |-> "peer", before |-> hA,
                          ret |-> call.ret, unwrapped |-> call.unwrapped,
                          message |-> message, plaintext |-> "hello"]
    /\ UNCHANGED <<hB, now, wire, read, hist, dlQueue, GlobalProgress, started>>

NextFrame == UpdateSenderKey \/ EncryptHelloToB \/ ReadOwn \/ ReadPeer

SpecFrame == Init /\ [][NextFrame]_vars

-----------------------------------------------------------------------------
(* Key ids of any day stamp and counter *)

\* day stamps at the ends of the 16-bit range, around the sign bit of the
\* shifted value and around a byte boundary
DayStamps == {0, 1, 255, 256, 16801, 32767, 32768, CounterMask}

\* the key id of a day stamp and a counter as a 4-byte string, what
\* _splitKeyId makes of it, and the same for the pair of the call before
EncodeKeyId ==
    /\ \E dateStamp \in DayStamps, counter \in Counters :
          LET keyId == a32_to_str(_encodeKeyId(dateStamp, counter))
          IN  last' = [op |-> "_encodeKeyId", dateStamp |-> dateStamp,
                       counter |-> counter,
                       keyIdNumber |-> _encodeKeyId(dateStamp, counter)[1],
                       keyId |-> keyId,
                       split |-> _splitKeyId(str_to_a32(keyId)),
                       earlier |-> IF last.op = "_encodeKeyId"
                                   THEN <<last.dateStamp, last.counter, last.keyId>>
                                   ELSE <<dateStamp, counter, keyId>>]
    /\ UNCHANGED <<hA, hB, now, wire, read, hist, dlQueue, GlobalProgress, started>>

NextKeyIds == EncodeKeyId

SpecKeyIds == InitRecv /\ [][NextKeyIds]_vars

-----------------------------------------------------------------------------
(* A queue of transfers: tasks are pushed, the timer runs process, workers *)
(* finish, single transfers are paused and resumed                         *)

\* history of the queue: tasks pushed, pause calls made, tasks whose
\* callback was called, tasks a pause(gid) put on hold and the ids of the
\* tasks added with pushFirst
NoQueueHistory ==
    [pushed |-> 0, pauses |-> 0, completed |-> {}, held |-> {}, first |-> {}]

TheWorld == World(dlQueue, GlobalProgress, started)

Becomes(w) ==
    /\ dlQueue' = w.q
    /\ GlobalProgress' = w.G
    /\ started' = w.started

InitQueue ==
    /\ hA = ProtocolHandler("A", MaxRotateEvery)
    /\ hB = ProtocolHandler("B", MaxRotateEvery)
    /\ now = 16801
    /\ wire = <<>>
    /\ read = 0
    /\ hist = NoQueueHistory
    /\ last = [op |-> "new"]
    /\ started = {}

\* a TransferQueue of the transfers Gids
InitTransfer ==
    /\ InitQueue
    /\ GlobalProgress = NoProgress
    /\ \E limit \in 1..MaxLimit : dlQueue = TransferQueue(limit)

\* a MegaQueue whose tasks are those of one transfer
InitMega ==
    /\ InitQueue
    /\ GlobalProgress = [gid \in {"dl_1"} |-> NoProgress[gid]]
    /\ \E limit \in 1..MaxLimit : dlQueue = MegaQueue(limit)

Push ==
    /\ hist.pushed < MaxTasks
    /\ \E gid \in DOMAIN GlobalProgress :
          /\ dlQueue' = push(dlQueue, Task(hist.pushed + 1, gid))
          /\ last' = [op |-> "push", gid |-> gid]
    /\ hist' = [hist EXCEPT !.pushed = @ + 1]
    /\ UNCHANGED <<hA, hB, now, wire, read, GlobalProgress, started>>

PushFirst ==
    /\ hist.pushed < MaxTasks
    /\ \E gid \in DOMAIN GlobalProgress :
          /\ dlQueue' = pushFirst(dlQueue, Task(hist.pushed + 1, gid))
          /\ last' = [op |-> "pushFirst", gid |-> gid]
    /\ hist' = [hist EXCEPT !.pushed = @ + 1, !.first = @ \cup {hist.pushed + 1}]
    /\ UNCHANGED <<hA, hB, now, wire, read, GlobalProgress, started>>

\* the timer set by _process fires
Process ==
    /\ dlQueue.timer
    /\ \E registers \in BOOLEAN : Becomes(process(TheWorld, registers))
    /\ last' = [op |-> "process"]
    /\ UNCHANGED <<hA, hB, now, wire, read, hist>>

\* a worker calls the callback of its task
Complete ==
    /\ \E task \in started :
          /\ Becomes(MQRicStub(TheWorld, task))
          /\ hist' = [hist EXCEPT !.completed = @ \cup {task}]
          /\ last' = [op |-> "done", gid |-> task.gid]
    /\ UNCHANGED <<hA, hB, now, wire, read>>

Pause ==
    /\ hist.pauses < MaxPauses
    /\ ~dlQueue._paused
    /\ dlQueue' = MegaQueue_pause(dlQueue)
    /\ hist' = [hist EXCEPT !.pauses = @ + 1]
    /\ last' = [op |-> "pause"]
    /\ UNCHANGED <<hA, hB, now, wire, read, GlobalProgress, started>>

Resume ==
    /\ dlQueue._paused
    /\ dlQueue' = MegaQueue_resume(dlQueue)
    /\ last' = [op |-> "resume"]
    /\ UNCHANGED <<hA, hB, now, wire, read, hist, GlobalProgress, started>>

\* pause(gid) of a transfer that is not paused
PauseTransfer ==
    /\ hist.pauses < MaxPauses
    /\ \E gid \in Gids :
          /\ ~GlobalProgress[gid].paused
          /\ Becomes(TransferQueue_pause(TheWorld, gid))
          /\ hist' = [hist EXCEPT !.pauses = @ + 1,
                                  !.held = @ \cup Range(HeldOf(dlQueue', gid))]
          /\ last' = [op |-> "pause", gid |-> gid]
    /\ UNCHANGED <<hA, hB, now, wire, read>>

\* resume(gid) of a transfer that is paused
ResumeTransfer ==
    /\ \E gid \in Gids :
          /\ GlobalProgress[gid].paused
          /\ Becomes(TransferQueue_resume(TheWorld, gid))
          /\ last' = [op |-> "resume", gid |-> gid]
    /\ UNCHANGED <<hA, hB, now, wire, read, hist>>

NextTransfer == Push \/ Process \/ Complete \/ PauseTransfer \/ ResumeTransfer

\* the browser fires a timer that is set, and the workers call back
SpecTransfer ==
    /\ InitTransfer
    /\ [][NextTransfer]_vars
    /\ WF_vars(Process)
    /\ WF_vars(Complete)

\* expand() is called, whether the queue can expand or not
Expand ==
    /\ dlQueue' = expand(dlQueue).q
    /\ last' = [op |-> "expand", ret |-> expand(dlQueue).ret]
    /\ UNCHANGED <<hA, hB, now, wire, read, hist, GlobalProgress, started>>

NextExpand == Push \/ Expand \/ Process \/ Complete

SpecExpand == InitMega /\ [][NextExpand]_vars

\* a worker calls the callback of a task once more
CompleteAgain ==
    /\ \E task \in hist.completed :
          /\ Becomes(MQRicStub(TheWorld, task))
          /\ last' = [op |-> "done again", gid |-> task.gid, before |-> TheWorld]
    /\ UNCHANGED <<hA, hB, now, wire, read, hist>>

NextWorkers ==
    \/ Push \/ PushFirst \/ Expand \/ Process \/ Complete \/ CompleteAgain
    \/ Pause \/ Resume

\* the browser fires a timer that is set, the workers call back, and a
\* paused queue is resumed
SpecWorkers ==
    /\ InitMega
    /\ [][NextWorkers]_vars
    /\ WF_vars(Process)
    /\ WF_vars(Complete)
    /\ WF_vars(Resume)

NextMega == Push \/ PushFirst \/ Process \/ Complete \/ Pause \/ Resume

SpecMega == InitMega /\ [][NextMega]_vars

-----------------------------------------------------------------------------
(* "B" is handed any sequence of records *)

\* the type codes of TLV_TYPES that records carry
RecordTypes == TLV_SIGNATURE..TLV_PAYLOAD

\* a value for the i-th record of a message, of the form its type asks for;
\* the values of two records of a message differ
ValueAt(tlvType, i) ==
    CASE tlvType = TLV_SIGNATURE -> _signMessage(<<Rec(0, ByteVal(i))>>, "A")
      [] tlvType = TLV_MESSAGE_TYPE -> ByteVal(i)
      [] tlvType = TLV_NONCE -> NonceVal(FreshNonce(i))
      [] tlvType = TLV_RECIPIENT -> HandleVal(<<"B", i>>)
      [] tlvType = TLV_KEYS -> _encryptKeysFor("A", <<FreshKey(i)>>, FreshNonce(i), "B")
      [] tlvType = TLV_KEY_IDS -> IdsVal(<<i>>)
      [] tlvType = TLV_PAYLOAD ->
            _symmetricEncryptMessage("hello", FreshKey(i), FreshNonce(i)).ciphertext

\* the message whose records have the types given, in that order
MessageOf(types) ==
    [version |-> PROTOCOL_VERSION,
     records |-> [i \in 1..Len(types) |-> Rec(types[i], ValueAt(types[i], i))]]

\* a message of at most MaxRecords records is about to be handed to "B"
InitParse ==
    /\ hA = ProtocolHandler("A", MaxRotateEvery)
    /\ hB = ProtocolHandler("B", MaxRotateEvery)
    /\ now = 16801
    /\ \E types \in SeqsUpTo(RecordTypes, MaxRecords) :
          wire = <<[message |-> MessageOf(types), plaintext |-> "hello", stored |-> FALSE]>>
    /\ read = 0
    /\ hist = NoHistory
    /\ last = [op |-> "new"]
    /\ NoTransfers

\* "B" calls decryptFrom on it, which parses it first
ParseMessage ==
    /\ read < Len(wire)
    /\ LET message == wire[read + 1].message
           call == decryptFrom(hB, message, "A", "garbage")
       IN  /\ hB' = call.h
           /\ last' = [op |-> "decryptFrom", source |-> "records", before |-> hB,
                       ret |-> call.ret, unwrapped |-> call.unwrapped,
                       types |-> TypesOf(message),
                       parsed |-> _parseMessageContent(message)]
    /\ read' = read + 1
    /\ UNCHANGED <<hA, now, wire, hist, dlQueue, GlobalProgress, started>>

NextParse == ParseMessage

SpecParse == InitParse /\ [][NextParse]_vars

-----------------------------------------------------------------------------
(* Claims about the sending side, checked under SpecSend *)

Sent == last.op = "encryptTo" /\ ~last.threw
SentFollowup == Sent /\ First(last.message, TLV_MESSAGE_TYPE) = ByteVal(GROUP_FOLLOWUP)
SentKeyed == Sent /\ First(last.message, TLV_MESSAGE_TYPE) = ByteVal(GROUP_KEYED)

\* C4: encryptTo(m, D) emits a GROUP_FOLLOWUP message only if an earlier
\* encryptTo call addressed to the same destination D emitted a GROUP_KEYED
\* message carrying the current KeyId.
C4_FollowupOnlyToKeyedDestination ==
    SentFollowup => <<last.destination, hA.keyId>> \in hist.keyedTo

\* C6: every rotation yields a KeyId different from every KeyId the handler
\* issued before: n key generations issue n different KeyIds.
C6_OwnKeyIdsUnique == Cardinality(hist.issued) = hist.updates

\* C7: an encryptTo call rotates the sender key if and only if exactly
\* rotateKeyEvery successful encryptTo calls have completed since the previous
\* rotation; a call that does not rotate emits under the same primary KeyId
\* as the call before it, a call that rotates under a different one.
C7_RotationTiming ==
    last.op = "encryptTo" =>
        /\ last.rotated <=> (last.since = last.before.rotateKeyEvery)
        /\ last.rotated <=> (hA.keyId # last.before.keyId)
        /\ Sent => PrimaryKeyId(last.message) = hA.keyId

C7_Witness ==
    /\ Sent /\ last.rotated
    /\ last.before.rotateKeyEvery = MaxRotateEvery
    /\ last.since = MaxRotateEvery
    /\ last.before.keyId # NULL

\* C8: the encryptTo call that rotates the key emits a GROUP_KEYED message
\* whose KEY_IDS record is the new KeyId followed by the previous KeyId and
\* whose KEYS record wraps, for the destination, the new sender key followed
\* by the previous sender key.
C8_RotatingCallSendsBothKeys ==
    (Sent /\ last.rotated) =>
        /\ First(last.message, TLV_MESSAGE_TYPE) = ByteVal(GROUP_KEYED)
        /\ last.before.keyId # NULL
        /\ First(last.message, TLV_KEY_IDS) = IdsVal(hA.keyId \o last.before.keyId)
        /\ First(last.message, TLV_RECIPIENT) = HandleVal(last.destination)
        /\ First(last.message, TLV_KEYS).keys =
              <<hA.participantKeys["A"][hA.keyId],
                last.before.participantKeys["A"][last.before.keyId]>>
        /\ First(last.message, TLV_KEYS).kek = {"A", last.destination}
        /\ First(last.message, TLV_KEYS).receiver = last.destination

C8_Witness ==
    /\ Sent /\ last.rotated
    /\ hist.updates > 1
    /\ First(last.message, TLV_KEYS).keys[1] # First(last.message, TLV_KEYS).keys[2]

\* C9: after an encryptTo call to destination D has emitted a GROUP_KEYED
\* message, every later encryptTo call to D before the next rotation emits a
\* GROUP_FOLLOWUP message with no RECIPIENT and no KEYS record and exactly
\* one KeyId, the current one.
C9_FollowupEconomy ==
    (Sent /\ ~last.rotated /\ last.destination \in last.keyedBefore) =>
        /\ First(last.message, TLV_MESSAGE_TYPE) = ByteVal(GROUP_FOLLOWUP)
        /\ ~Has(last.message, TLV_RECIPIENT)
        /\ ~Has(last.message, TLV_KEYS)
        /\ First(last.message, TLV_KEY_IDS) = IdsVal(hA.keyId)

C9_Witness ==
    /\ Sent /\ ~last.rotated /\ last.destination \in last.keyedBefore
    /\ hA.previousKeyId # NULL

-----------------------------------------------------------------------------
(* Claims about a sender and its recipient *)

Delivered == last.op = "decryptFrom" /\ last.source = "wire"
HandedTampered == last.op = "decryptFrom" /\ last.source = "tampered"

\* C1: when "B" applies decryptFrom, in emission order, to every message
\* that "A" (holding a sender key under its current KeyId) emitted for "B",
\* every call returns the sender "A", the emitted message type and the
\* original plaintext.  Checked under Spec.
C1_RoundTrip ==
    Delivered =>
        last.ret = [returned |-> "object", cause |-> "None", sender |-> "A",
                    type |-> First(last.message, TLV_MESSAGE_TYPE),
                    payload |-> last.plaintext]

\* C2, as claimed: changing any single part of an emitted message makes
\* decryptFrom fail, and the failure is the one of the signature check.
\* Checked under SpecTamper.
C2_TamperFailsWithInvalidSignature ==
    HandedTampered => last.ret.returned = "false" /\ last.ret.cause = "InvalidSignature"

\* C2, amended: changing any single part of an emitted message makes
\* decryptFrom fail.  A changed version byte is rejected by the version
\* check; a changed type byte by the parser, by the signature check or by an
\* exception of the verification (no usable SIGNATURE record is left); a
\* changed signature, nonce, recipient, wrapped key, KeyId or payload by the
\* signature check.
C2_TamperFails ==
    HandedTampered =>
        /\ last.ret.returned # "object"
        /\ last.part = "version" => last.ret.cause = "UnsupportedVersion"
        /\ last.part = "type byte" =>
              last.ret.cause \in {"MalformedMessage", "InvalidSignature", "Exception"}
        /\ last.part \notin {"version", "type byte"} => last.ret.cause = "InvalidSignature"

C2_Witness ==
    /\ HandedTampered /\ last.part = "payload" /\ last.ret.cause = "InvalidSignature"
    /\ DOMAIN hB.participantKeys = {"A", "B"}

-----------------------------------------------------------------------------
(* Claims about the key cache of a recipient, checked under SpecRecv *)

HandedSigned == last.op = "decryptFrom" /\ last.source = "signed"
CachedBefore(p, id) == Lookup(KeysOf(last.before.participantKeys, p), id)
CachedNow(p, id) == Lookup(KeysOf(hB.participantKeys, p), id)

\* C3: over any sequence of decryptFrom calls with validly signed messages
\* (keyed messages carrying any number of wrapped keys, including none, and
\* any number of KeyIds), once participantKeys[p][id] holds a key it holds
\* that key in every later state.
C3_CachedKeyNeverChanges ==
    HandedSigned =>
        \A p \in DOMAIN last.before.participantKeys :
            \A id \in DOMAIN last.before.participantKeys[p] :
                CachedBefore(p, id) # UndefinedKey => CachedNow(p, id) = CachedBefore(p, id)

\* the positions of a keyed message at which it carries, for a key id the
\* cache holds a key for, another key
ConflictingPositions ==
    {i \in 1..Len(last.keys) :
        /\ i <= Len(last.ids)
        /\ CachedBefore(last.sender, last.ids[i]) # UndefinedKey
        /\ CachedBefore(last.sender, last.ids[i]) # last.keys[i]}

\* C5: if decryptFrom has cached key k for (S, id) and a later validly
\* signed keyed message from S carries a different key for the same id (in
\* the first or in the second key position), that call fails with
\* KeyConflict, returns no payload, and (S, id) -> k is still in the store.
C5_KeyConflict ==
    (HandedSigned /\ last.keyed /\ ConflictingPositions # {}) =>
        /\ last.ret.returned = "false"
        /\ last.ret.cause = "KeyConflict"
        /\ \A i \in ConflictingPositions :
              CachedNow(last.sender, last.ids[i]) = CachedBefore(last.sender, last.ids[i])

C5_Witness == HandedSigned /\ last.keyed /\ ConflictingPositions = {2}

\* C11: the conflict checks for all keys unwrapped from a message complete
\* before any of those keys is written to the key store: a decryptFrom call
\* that fails with KeyConflict leaves the store exactly as it was.
C11_ConflictLeavesStoreUnchanged ==
    (HandedSigned /\ last.ret.cause = "KeyConflict") =>
        hB.participantKeys = last.before.participantKeys

\* what the caller of decryptFrom gets to see of a result: the value, not the
\* return statement it came from
Visible(ret) == [returned |-> ret.returned, sender |-> ret.sender, type |-> ret.type,
                 payload |-> ret.payload]
FailureCauses ==
    {"MalformedMessage", "UnsupportedVersion", "InvalidSignature", "KeyConflict",
     "UnknownSenderKey", "DecryptionFailed"}

\* C12: each failure cause of decryptFrom is reported as a value that differs
\* from the value reported for every other cause: a call that returns the
\* value of cause c failed for cause c.
C12_DistinctErrorValues ==
    last.op = "decryptFrom" =>
        \A c \in FailureCauses :
            Visible(last.ret) = Visible(Failure(c)) => last.ret.cause = c

-----------------------------------------------------------------------------
(* Claims about the parser, checked under SpecParse *)

Parsed == last.op = "decryptFrom" /\ last.source = "records"
Count(types, tlvType) == Cardinality({i \in 1..Len(types) : types[i] = tlvType})
Descends(types) == \E i \in 2..Len(types) : types[i] < types[i - 1]

\* C13: the parser, and therefore decryptFrom, fails on every message in
\* which some record's type code is lower than that of the record
\* immediately before it, whatever the other records are.
C13_OrderingEnforced ==
    (Parsed /\ Descends(last.types)) =>
        /\ ~last.parsed.ok
        /\ last.ret = Failure("MalformedMessage")
        /\ hB = last.before

C13_Witness ==
    /\ Parsed /\ last.types = <<TLV_SIGNATURE, TLV_MESSAGE_TYPE, TLV_KEY_IDS, TLV_NONCE>>
    /\ last.ret.cause = "MalformedMessage"

\* the layout of a message for several recipients: records in ascending
\* type order, the RECIPIENT and KEYS records as consecutive pairs
PairedLayout(types) ==
    \E a \in 0..Len(types), n \in 1..Len(types) :
        /\ a + 2 * n <= Len(types)
        /\ \A j \in 1..Len(types) :
              /\ j <= a => types[j] < TLV_RECIPIENT /\ (j > 1 => types[j - 1] <= types[j])
              /\ (a < j /\ j <= a + 2 * n) =>
                    types[j] = (IF (j - a) % 2 = 1 THEN TLV_RECIPIENT ELSE TLV_KEYS)
              /\ j > a + 2 * n =>
                    types[j] > TLV_KEYS /\ (j > a + 2 * n + 1 => types[j - 1] <= types[j])

\* C14: a message that carries its RECIPIENT and KEYS records as consecutive
\* pairs, one pair per recipient, and is otherwise in ascending type order is
\* accepted by the ordering check, and the parser returns the recipients and
\* the keys as two parallel lists of equal length.
C14_RecipientKeysPairsAccepted ==
    (Parsed /\ PairedLayout(last.types)) =>
        /\ last.parsed.ok
        /\ Len(last.parsed.recipients) = Count(last.types, TLV_RECIPIENT)
        /\ Len(last.parsed.keys) = Count(last.types, TLV_RECIPIENT)

\* C15: a message that contains two records of a type other than RECIPIENT
\* and KEYS is rejected by the parser.
C15_OnlyRecipientKeysRepeat ==
    (Parsed /\ \E t \in RecordTypes \ {TLV_RECIPIENT, TLV_KEYS} : Count(last.types, t) > 1) =>
        ~last.parsed.ok

\* C16: the parser rejects every message that has at least one RECIPIENT
\* record and a number of KEYS records different from its number of
\* RECIPIENT records, and every message it accepts with at least one
\* RECIPIENT record has equally many KEYS records.
C16_RecipientKeysCount ==
    Parsed =>
        LET recipients == Count(last.types, TLV_RECIPIENT)
            keys == Count(last.types, TLV_KEYS)
        IN  /\ (recipients > 0 /\ keys # recipients) =>
                  ~last.parsed.ok /\ last.ret = Failure("MalformedMessage")
            /\ (recipients > 0 /\ last.parsed.ok) =>
                  /\ keys = recipients
                  /\ Len(last.parsed.recipients) = recipients
                  /\ Len(last.parsed.keys) = recipients

C16_Witness ==
    /\ Parsed /\ last.types = <<TLV_RECIPIENT, TLV_KEYS, TLV_KEYS>>
    /\ ~last.parsed.ok

-----------------------------------------------------------------------------
(* Claims about the messages of two peers, checked under SpecPeers *)

FromPeer == last.op = "decryptFrom" /\ last.source = "peer"
\* no key is cached for the key id under the sender's entry
NotCached(participantKeys, sender, id) ==
    \/ sender \notin DOMAIN participantKeys
    \/ id \notin DOMAIN participantKeys[sender]
    \/ participantKeys[sender][id] = UndefinedKey

\* C17: decryptFrom applied to a validly signed message without KEYS records
\* whose primary KeyId has no cached key for that sender fails with
\* UnknownSenderKey, whatever is cached under another KeyId or for another
\* participant, and leaves the key store unchanged.
C17_UnknownSenderKey ==
    (FromPeer /\ ~last.keyed /\ NotCached(last.before.participantKeys, last.sender, last.id)) =>
        /\ last.ret = Failure("UnknownSenderKey")
        /\ ~last.unwrapped
        /\ hB = last.before

\* the payload's key is cached for the sender under another key id, and for
\* the other peer under the key id the message names
C17_Witness ==
    /\ FromPeer /\ ~last.keyed /\ last.sender = "C"
    /\ NotCached(last.before.participantKeys, "C", last.id)
    /\ \E id \in DOMAIN KeysOf(last.before.participantKeys, "C") :
          KeysOf(last.before.participantKeys, "C")[id] = FreshKey(1)
    /\ Lookup(KeysOf(last.before.participantKeys, "A"), last.id) = FreshKey(1)

\* C19: for two validly signed messages from two different senders, applying
\* decryptFrom to them in either order gives the same two results and the
\* same final handler; a call for sender S leaves the entries of the other
\* participants as they are.
C19_DecryptsCommute ==
    (FromPeer /\ last.prev.op = "decryptFrom" /\ last.prev.sender # last.sender) =>
        LET first == decryptFrom(last.prev.before, PeerMessage(last), last.sender, "garbage")
            second == decryptFrom(first.h, PeerMessage(last.prev), last.prev.sender,
                                  "garbage")
        IN  /\ first.ret = last.ret
            /\ second.ret = last.prev.ret
            /\ second.h = hB
            /\ \A p \in DOMAIN last.before.participantKeys \ {last.sender} :
                  hB.participantKeys[p] = last.before.participantKeys[p]

C19_Witness ==
    /\ FromPeer /\ last.prev.op = "decryptFrom" /\ last.prev.sender # last.sender
    /\ last.keyed /\ last.prev.keyed /\ last.id = last.prev.id /\ last.key # last.prev.key
    /\ last.ret.returned = "object" /\ last.prev.ret.returned = "object"
    /\ last.prev.before.participantKeys # [B |-> EmptyKeys]

-----------------------------------------------------------------------------
(* Claims about the key ids of rotations, checked under SpecRotate *)

Rotated == last.op = "_updateSenderKey"

\* C18: a rotation with no previous KeyId yields (current day, 0); with a
\* previous KeyId (d, n) and an unchanged day it yields (d, (n + 1) mod
\* 65536); with a previous KeyId and a different current day it yields
\* (current day, 0).
C18_KeyIdSuccession ==
    Rotated =>
        LET new == _splitKeyId(hA.keyId)
            previous == _splitKeyId(last.before.keyId)
        IN  /\ last.before.keyId = NULL => new = <<last.day, 0>>
            /\ (last.before.keyId # NULL /\ previous[1] = last.day) =>
                  new = <<last.day, (previous[2] + 1) % 65536>>
            /\ (last.before.keyId # NULL /\ previous[1] # last.day) => new = <<last.day, 0>>
            /\ hA.keyId = <<last.day * 65536 + new[2]>>

\* the counter wraps
C18_Witness ==
    /\ Rotated /\ last.before.keyId # NULL
    /\ _splitKeyId(last.before.keyId) = <<last.day, 65535>>
    /\ _splitKeyId(hA.keyId) = <<last.day, 0>>

-----------------------------------------------------------------------------
(* Claims about a handler reading its own messages, checked under SpecOwn *)

ReadItsOwn == last.op = "decryptFrom" /\ last.source = "own"

\* C20: when "A" applies decryptFrom, with its own handle as the sender, to
\* a keyed message it produced with encryptTo(P, "B"), it unwraps the keys
\* (with "B", from the RECIPIENT record, as the other party), detects no key
\* conflict, returns payload P, and its key store is as before the call.
C20_SelfSentReRead ==
    ReadItsOwn =>
        /\ last.unwrapped
        /\ last.ret = [returned |-> "object", cause |-> "None", sender |-> "A",
                       type |-> ByteVal(GROUP_KEYED), payload |-> last.plaintext]
        /\ hA = last.before

-----------------------------------------------------------------------------
(* Further claims about the sending side, checked under SpecSend *)

\* the key the payload of the message just emitted is encrypted under
PayloadKey == First(last.message, TLV_PAYLOAD).key
OwnKey(h, keyId) == Lookup(h.participantKeys[h.ownHandle], keyId)

\* C21: the first encryptTo call of a newly constructed handler emits a
\* GROUP_KEYED message encrypted under a sender key stored in the handler's
\* own key store; a GROUP_FOLLOWUP message is emitted only under a KeyId that
\* an earlier GROUP_KEYED message of the handler carried, its payload
\* encrypted under the key stored for that KeyId.
C21_NoFollowupBeforeKeyed ==
    /\ (last.op = "encryptTo"
        /\ last.before = ProtocolHandler("A", last.before.rotateKeyEvery)) =>
            /\ SentKeyed
            /\ PayloadKey # UndefinedKey
            /\ PayloadKey = OwnKey(hA, hA.keyId)
    /\ SentFollowup =>
            /\ \E destination \in Handles : <<destination, hA.keyId>> \in hist.keyedTo
            /\ PayloadKey # UndefinedKey
            /\ PayloadKey = OwnKey(hA, hA.keyId)

\* C22: every message emitted by encryptTo is the version byte followed by
\* SIGNATURE, MESSAGE_TYPE, NONCE, then (only in a keyed message) one
\* RECIPIENT and one KEYS record, then KEY_IDS, then PAYLOAD; its type is
\* GROUP_KEYED exactly when RECIPIENT and KEYS are present; the signature is
\* computed over all records after SIGNATURE; the parser accepts it.
C22_EmittedMessagesWellFormed ==
    Sent =>
        LET keyed == Has(last.message, TLV_KEYS)
            parsed == _parseMessageContent(last.message)
        IN  /\ last.message.version = PROTOCOL_VERSION
            /\ TypesOf(last.message) =
                  (IF keyed
                   THEN <<TLV_SIGNATURE, TLV_MESSAGE_TYPE, TLV_NONCE, TLV_RECIPIENT, TLV_KEYS,
                          TLV_KEY_IDS, TLV_PAYLOAD>>
                   ELSE <<TLV_SIGNATURE, TLV_MESSAGE_TYPE, TLV_NONCE, TLV_KEY_IDS,
                          TLV_PAYLOAD>>)
            /\ First(last.message, TLV_MESSAGE_TYPE) =
                  ByteVal(IF keyed THEN GROUP_KEYED ELSE GROUP_FOLLOWUP)
            /\ First(last.message, TLV_SIGNATURE) =
                  _signMessage(Tail(last.message.records), "A")
            /\ parsed.ok
            /\ parsed.signedContent = Tail(last.message.records)
            /\ _verifyMessage(parsed.signedContent, parsed.signature, "A") = "ok"

C22_Witness ==
    /\ SentKeyed /\ Len(last.message.records) = 7
    /\ Len(First(last.message, TLV_KEYS).keys) = 2
    /\ last.destination = "C"

-----------------------------------------------------------------------------
(* Further claims about the key cache of a recipient, checked under SpecRecv *)

\* the key ids under which the sender's entry has a binding it did not have
\* before the call
ChangedBindings ==
    {id \in DOMAIN KeysOf(hB.participantKeys, last.sender) :
        \/ id \notin DOMAIN KeysOf(last.before.participantKeys, last.sender)
        \/ CachedNow(last.sender, id) # CachedBefore(last.sender, id)}

\* C23: every binding that decryptFrom adds to the key store is stored under
\* a KeyId that appears in the message's KEY_IDS record at the same position
\* as the unwrapped key; whatever the numbers of keys and KeyIds, no binding
\* is created or changed under a missing (undefined) KeyId.
C23_KeysPairedWithKeyIds ==
    HandedSigned =>
        \A id \in ChangedBindings :
            /\ id # UNDEFINED_ID
            /\ \E i \in 1..Len(last.keys) :
                  /\ i <= Len(last.ids)
                  /\ last.ids[i] = id
                  /\ CachedNow(last.sender, id) = last.keys[i]

-----------------------------------------------------------------------------
(* Claims about messages for several recipients, checked under SpecMulti *)

HandedMulti == last.op = "decryptFrom" /\ last.source = "multi"

\* C24: when a validly signed inbound keyed message carries several
\* RECIPIENT/KEYS pairs, decryptFrom unwraps the KEYS record paired with the
\* RECIPIENT record equal to the local handle: unless the key conflicts with
\* one cached before, the key it caches under the message's KeyId is the
\* sender's key, and the payload is returned, whatever the position of the
\* local handle in the recipient list.
C24_RecipientSelection ==
    (HandedMulti /\ CachedBefore("A", last.id) \in {UndefinedKey, last.key}) =>
        /\ last.ret.returned = "object"
        /\ last.ret.payload = "hello"
        /\ CachedNow("A", last.id) = last.key

-----------------------------------------------------------------------------
(* Further claims about the sender, checked under SpecSend *)

\* encryptTo failed because the destination's chat key is not cached
UnknownPeerKey ==
    /\ last.op = "encryptTo"
    /\ last.threw
    /\ last.destination \notin pubCu25519
    /\ last.before.keyId # NULL

\* C25: if encryptTo fails because the destination's public chat key is not
\* resolved, the handler state after the call equals the state before it,
\* also when a rotation was due on that call.
C25_EncryptToAtomicOnFailure == UnknownPeerKey => hA = last.before

-----------------------------------------------------------------------------
(* The frame of the two operations, checked under SpecFrame *)

\* the participants other than handle that have an entry in the key store of h
OtherEntries(h, handle) ==
    [p \in DOMAIN h.participantKeys \ {handle} |-> h.participantKeys[p]]

\* C26: no decryptFrom call, successful or failed, changes keyId,
\* previousKeyId, sentKeyId or the per-key encryption counter; no encryptTo
\* call changes the key-store entry of a participant other than the local
\* handle.
C26_Frame ==
    /\ last.op = "decryptFrom" =>
          /\ hA.keyId = last.before.keyId
          /\ hA.previousKeyId = last.before.previousKeyId
          /\ hA.sentKeyId = last.before.sentKeyId
          /\ hA.keyEncryptionCount = last.before.keyEncryptionCount
    /\ last.op = "encryptTo" =>
          OtherEntries(hA, "A") = OtherEntries(last.before, "A")

\* both halves happen on a handler with keys of its own and of a peer: a
\* decryptFrom call caches a key on a handler that has sent, and an
\* encryptTo call rotates on a handler that holds a key of "C"
C26_Witness ==
    /\ last.op = "encryptTo"
    /\ last.rotated
    /\ ~last.threw
    /\ DOMAIN KeysOf(hA.participantKeys, "C") # {}
    /\ hist.calls = MaxMsgs

-----------------------------------------------------------------------------
(* The encoding of key ids, checked under SpecKeyIds *)

Encoded == last.op = "_encodeKeyId"

\* C27: splitting the KeyId encoded from a day stamp d and a counter c, both
\* in 0..65535, returns (d, c); the 32-bit value is (d << 16) | c, negative
\* as a signed integer for d >= 32768, its four bytes being those of d and
\* of c; two different pairs never encode to the same KeyId.
C27_KeyIdRoundTrip ==
    Encoded =>
        /\ last.split = <<last.dateStamp, last.counter>>
        /\ last.keyIdNumber =
              (IF last.dateStamp >= 32768 THEN last.dateStamp - Word16 ELSE last.dateStamp)
                  * Word16 + last.counter
        /\ last.keyId = <<last.dateStamp \div 256, last.dateStamp % 256,
                          last.counter \div 256, last.counter % 256>>
        /\ <<last.earlier[1], last.earlier[2]>> # <<last.dateStamp, last.counter>>
              => last.earlier[3] # last.keyId

\* a day stamp whose shifted value is negative, after a different pair
C27_Witness ==
    /\ Encoded
    /\ last.dateStamp = 32768
    /\ last.counter = CounterMask
    /\ last.keyIdNumber < 0
    /\ last.earlier[1] = CounterMask
    /\ last.earlier[2] = 0

-----------------------------------------------------------------------------
(* Claims about the queue of transfers, checked under SpecTransfer *)

HeldNow == UNION {Range(dlQueue._qpaused[i].tasks) : i \in 1..Len(dlQueue._qpaused)}

\* C28: every task that pause(gid) moved into the held set _qpaused[gid] is
\* in every later state held, queued, running or completed; pause(gid),
\* resume(gid) while the queue is busy and pause(gid) again does not drop
\* the tasks held by the first pause.
C28_HeldTasksNeverLost ==
    hist.held \subseteq
        HeldNow \cup Range(dlQueue._queue) \cup started \cup hist.completed

\* tasks are on hold for a transfer that is not paused
HeldResumed(gid) ==
    /\ IsHeld(dlQueue, gid)
    /\ HeldOf(dlQueue, gid) # <<>>
    /\ ~GlobalProgress[gid].paused

\* C29: a transfer that was paused and resumed, its tasks being on hold, is
\* eventually dispatched (or paused again), also when another transfer
\* paused before it is still paused.
C29_ResumedEventuallyDispatched ==
    \A gid \in Gids :
        HeldResumed(gid) ~> (~IsHeld(dlQueue, gid) \/ GlobalProgress[gid].paused)

-----------------------------------------------------------------------------
(* The concurrency limit, checked under SpecMega *)

\* C30: without expand and shrink, the number of tasks whose worker has been
\* started and whose callback has not been called never exceeds _limit.
C30_ConcurrencyLimit == Cardinality(started) <= dlQueue._limit

\* the limit is reached while a task waits in the queue
C30_Witness ==
    /\ Cardinality(started) = dlQueue._limit
    /\ dlQueue._limit = MaxLimit
    /\ Len(dlQueue._queue) > 0
    /\ last.op = "process"

-----------------------------------------------------------------------------
(* The expansion of a queue, checked under SpecExpand *)

\* the tasks the limit lets a process run start
Room(q) == IF q._running < q._limit THEN q._limit - q._running ELSE 0

\* C31: with _limit fixed, for any sequence of push, expand and task
\* completions the number of running tasks never exceeds 1.5 times _limit,
\* a process run starts at most one task beyond what the limit allows, and
\* only if the queue was expanded, and the expansion is cleared by the run.
C31_ExpansionBound ==
    [][/\ 2 * Cardinality(started') <= 3 * dlQueue'._limit
       /\ last'.op = "process" =>
             /\ Cardinality(started' \ started)
                   <= Room(dlQueue) + (IF dlQueue._expanded THEN 1 ELSE 0)
             /\ ~dlQueue'._expanded]_vars

-----------------------------------------------------------------------------
(* Claims about a MegaQueue and its workers, checked under SpecWorkers *)

\* the task with this id was handed to the worker
Handed(id) == \E task \in started \cup hist.completed : task.id = id
Queued(id) == \E task \in Range(dlQueue._queue) : task.id = id

\* C32: every task added with push or pushFirst is eventually handed to the
\* worker, the queue being resumed when paused and every started task calling
\* back; when a task starts, no task pushed before it with push is waiting.
C32_EveryTaskEventuallyRuns ==
    /\ \A id \in 1..MaxTasks : Queued(id) ~> Handed(id)
    /\ [][\A task \in started' \ started :
             task.id \notin hist.first =>
                 \A waiting \in Range(dlQueue'._queue) :
                     waiting.id \in hist.first \/ waiting.id > task.id]_vars

\* every task was handed to a worker, of a queue that was paused and got
\* tasks by push and by pushFirst
C32_Witness ==
    /\ hist.pushed = MaxTasks
    /\ \A id \in 1..MaxTasks : Handed(id)
    /\ hist.pauses > 0
    /\ hist.first # {}
    /\ hist.first # 1..MaxTasks

\* C33: a repeated invocation of a task's completion callback changes
\* nothing: only the first decrements the running count and triggers
\* processing, so the running count is never below the number of tasks in
\* progress.
C33_CompletesAtMostOnce ==
    /\ last.op = "done again" => TheWorld = last.before
    /\ dlQueue._running >= Cardinality(started)

\* a callback is repeated while another task is in progress
C33_Witness ==
    /\ last.op = "done again"
    /\ Cardinality(started) > 0
    /\ dlQueue._running = Cardinality(started)

\* C34: between pause() and the next resume() no task is handed to the
\* worker, whatever is pushed, expanded or completed, and the tasks in the
\* queue stay queued; they are started after resume().
C34_PausedQueueStartsNothing ==
    /\ [][dlQueue._paused =>
             /\ started' \subseteq started
             /\ dlQueue'._paused => Range(dlQueue._queue) \subseteq Range(dlQueue'._queue)]_vars
    /\ \A id \in 1..MaxTasks : (dlQueue._paused /\ Queued(id)) ~> Handed(id)

\* the timer ran process on a paused, expanded queue with a task waiting
C34_Witness ==
    /\ last.op = "process"
    /\ dlQueue._paused
    /\ dlQueue._expanded
    /\ Len(dlQueue._queue) > 0

====
